---- MODULE Spec2Model ----
(***************************************************************************)
(* Model of the paginated auction table: the App screen (src/src/App.tsx)  *)
(* that owns data, currentPage and isLoading and fetches one page per      *)
(* currentPage change, and the generic DataTable renderer                  *)
(* (src/unnamed/part_000) with its pager, body states and row actions.     *)
(*                                                                         *)
(* Two specifications share the renderer's definitions:                    *)
(*   Spec       the App as wired: React state, the props of the last       *)
(*              committed render, the effect, the requests in flight;      *)
(*   SpecTable  the DataTable alone under every combination of props of a  *)
(*              bounded set, driven by user events and re-renders.         *)
(***************************************************************************)
EXTENDS Integers, Sequences, FiniteSets, TLC

VARIABLES
    data,          \* App: useState<AuctionData[]>([])
    currentPage,   \* App: useState(1)
    isLoading,     \* App: useState(false)
    inflight,      \* App: fetchData calls that have not settled, in issue order
    errorsLogged,  \* App: number of console.error calls made by fetchData
    effectDeps,    \* App: the [currentPage] the effect last ran with (0: not yet run)
    issued,        \* history: fetches issued so far, counted up to MaxOverlap
    staleShown,    \* history: data was stored by a request superseded by a later stored one
    props,         \* DataTable: the props of the last committed render
    dialog,        \* DataTable: index of the body row whose AlertDialog is open (0: none)
    lastEvent,     \* history: the most recent user event or re-render of the DataTable
    lastCalls      \* history: the callbacks that event invoked, in order

appVars   == <<data, currentPage, isLoading, inflight, errorsLogged, effectDeps, issued,
               staleShown>>
tableVars == <<dialog, lastEvent, lastCalls>>
vars      == <<data, currentPage, isLoading, inflight, errorsLogged, effectDeps, issued,
               staleShown, props, dialog, lastEvent, lastCalls>>

(***************************************************************************)
(* Bounds of the model.                                                    *)
(***************************************************************************)
MaxOverlap   == 3   \* the first MaxOverlap fetches of a run may overlap; each later
                    \* one is issued when nothing is in flight (Spec)
MaxRespRows  == 1   \* rows in one response body (Spec)
MaxErrors    == 2   \* console.error calls (Spec)
MaxRows      == 2   \* rows handed to the renderer (SpecTable)
MaxPageCount == 2   \* pageCount handed to the renderer (SpecTable)

(***************************************************************************)
(* Program constants.                                                      *)
(***************************************************************************)
PageCount == 10     \* <DataTable pageCount={10}>
PageSize  == 10     \* .../auction-all/${currentPage-1}/10 and pageSize={10}

Undefined == "<undefined>"

Remove(s, i) == [j \in 1..(Len(s) - 1) |-> IF j < i THEN s[j] ELSE s[j + 1]]

\* JavaScript truthiness of an optional string prop: undefined and "" are falsy.
Truthy(s) == s # Undefined /\ s # ""

(***************************************************************************)
(* The DataTable renderer.                                                 *)
(***************************************************************************)

\* The synthetic trailing column.
ActionsColumn == "actions"

\* if (!onEdit && !onDelete) return columns;  -- editRoute is not consulted.
HasActions(p) == ~(~p.onEdit /\ ~p.onDelete)

\* tableColumns: the supplied columns, plus the actions column when an edit
\* or a delete callback is supplied.
TableColumns(p) ==
    IF HasActions(p) THEN Append(p.columns, ActionsColumn) ELSE p.columns

\* table.getRowModel().rows under manualPagination: every supplied record.
RowModel(p) == p.data

Loading   == [kind |-> "placeholder", text |-> "Loading...", colSpan |-> 0, record |-> [id |-> 0]]
NoResults == [kind |-> "placeholder", text |-> "No results.", colSpan |-> 0, record |-> [id |-> 0]]

\* Faulty variant of Body: the rows are tested before the loading flag.
Body_RowsFirst(p) ==
    IF Len(RowModel(p)) # 0
    THEN [i \in 1..Len(RowModel(p)) |->
             [kind |-> "row", text |-> "", colSpan |-> 1, record |-> RowModel(p)[i]]]
    ELSE IF p.isLoading
         THEN << [Loading EXCEPT !.colSpan = Len(TableColumns(p))] >>
         ELSE << [NoResults EXCEPT !.colSpan = Len(TableColumns(p))] >>

\* The rows of <TableBody>.
Body(p) ==
    IF p.isLoading
    THEN << [Loading EXCEPT !.colSpan = Len(TableColumns(p))] >>
    ELSE IF Len(RowModel(p)) # 0
         THEN [i \in 1..Len(RowModel(p)) |->
                  [kind |-> "row", text |-> "", colSpan |-> 1, record |-> RowModel(p)[i]]]
         ELSE << [NoResults EXCEPT !.colSpan = Len(TableColumns(p))] >>

\* The indices of the body rows that show records.
DataRows(p) == {i \in 1..Len(Body(p)) : Body(p)[i].kind = "row"}

\* Faulty variant of PreviousDisabled: disabled on every page up to 1.
PreviousDisabled_AtMostOne(p) == p.currentPage <= 1

\* disabled={currentPage === 1}
PreviousDisabled(p) == p.currentPage = 1

\* Faulty variant of NextDisabled: disabled only beyond the last page.
NextDisabled_Beyond(p) == p.currentPage > p.pageCount

\* disabled={currentPage === pageCount}
NextDisabled(p) == p.currentPage = p.pageCount

\* {onEdit && (<Button ...>)} and {onDelete && (<AlertDialog>...)} inside the
\* actions cell, which exists only in the actions column.
HasEditControl(p)   == HasActions(p) /\ p.onEdit
HasDeleteControl(p) == HasActions(p) /\ p.onDelete

\* `${editRoute}/${row.original.id}`
EditTarget(route, record) == route \o "/" \o ToString(record.id)

\* The callbacks each control's onClick invokes, in order.
PreviousOnClick(p) == << [fn |-> "onPageChange", arg |-> p.currentPage - 1] >>
NextOnClick(p)     == << [fn |-> "onPageChange", arg |-> p.currentPage + 1] >>

\* Faulty variant of EditOnClick: the else is missing, so the edit callback
\* is invoked after navigating too.
EditOnClick_NoElse(p, record) ==
    (IF Truthy(p.editRoute)
     THEN << [fn |-> "navigate", arg |-> EditTarget(p.editRoute, record)] >>
     ELSE << >>)
    \o << [fn |-> "onEdit", arg |-> record] >>

EditOnClick(p, record) ==
    IF Truthy(p.editRoute)
    THEN << [fn |-> "navigate", arg |-> EditTarget(p.editRoute, record)] >>
    ELSE << [fn |-> "onEdit", arg |-> record] >>

\* Faulty variant of DeleteActionOnClick: the callback gets the first record
\* of the page instead of the row's.
DeleteActionOnClick_FirstRow(p, record) ==
    << [fn |-> "onDelete", arg |-> RowModel(p)[1]] >>

DeleteActionOnClick(p, record) == << [fn |-> "onDelete", arg |-> record] >>

NoEvent == [kind |-> "none", row |-> 0]

(***************************************************************************)
(* SpecTable: the renderer under every props of a bounded set.             *)
(***************************************************************************)
RowId(k) == 41 + k

TableRecords == {[id |-> RowId(k)] : k \in 1..MaxRows}

TableData ==
    {s \in UNION {[1..n -> TableRecords] : n \in 0..MaxRows} :
        \A i, j \in 1..Len(s) : i # j => s[i].id # s[j].id}

TableColumnSets == { <<>>, <<"name">>, <<"name", "type">> }

EditRoutes == {Undefined, "", "/items/edit"}

TableProps ==
    [data : TableData, columns : TableColumnSets, pageCount : 0..MaxPageCount,
     currentPage : 0..(MaxPageCount + 1), onEdit : BOOLEAN, onDelete : BOOLEAN,
     editRoute : EditRoutes, isLoading : BOOLEAN]

\* The props the App hands to the DataTable.
AppColumns == <<"dateString", "auctioneer", "lots", "qty", "qtySold", "maxPrice",
                "avgPrice", "type">>

AppProps ==
    [data |-> data, columns |-> AppColumns, pageCount |-> PageCount,
     currentPage |-> currentPage, onEdit |-> FALSE, onDelete |-> FALSE,
     editRoute |-> Undefined, isLoading |-> isLoading]

InitApp ==
    /\ data = <<>>
    /\ currentPage = 1
    /\ isLoading = FALSE
    /\ inflight = <<>>
    /\ errorsLogged = 0
    /\ effectDeps = 0
    /\ issued = 0
    /\ staleShown = FALSE

InitTable ==
    /\ InitApp
    /\ props \in TableProps
    /\ dialog = 0
    /\ lastEvent = NoEvent
    /\ lastCalls = <<>>

\* A click on the enabled Previous button.
TableClickPrevious ==
    /\ dialog = 0
    /\ ~PreviousDisabled(props)
    /\ lastEvent' = [kind |-> "previous", row |-> 0]
    /\ lastCalls' = PreviousOnClick(props)
    /\ UNCHANGED <<props, dialog, appVars>>

\* A click on the enabled Next button.
TableClickNext ==
    /\ dialog = 0
    /\ ~NextDisabled(props)
    /\ lastEvent' = [kind |-> "next", row |-> 0]
    /\ lastCalls' = NextOnClick(props)
    /\ UNCHANGED <<props, dialog, appVars>>

\* A click on the edit button of body row i.
ClickEdit(i) ==
    /\ dialog = 0
    /\ i \in DataRows(props)
    /\ HasEditControl(props)
    /\ lastEvent' = [kind |-> "edit", row |-> i]
    /\ lastCalls' = EditOnClick(props, Body(props)[i].record)
    /\ UNCHANGED <<props, dialog, appVars>>

\* A click on the trash button of body row i: the AlertDialogTrigger.
OpenDeleteDialog(i) ==
    /\ dialog = 0
    /\ i \in DataRows(props)
    /\ HasDeleteControl(props)
    /\ dialog' = i
    /\ lastEvent' = [kind |-> "openDelete", row |-> i]
    /\ lastCalls' = <<>>
    /\ UNCHANGED <<props, appVars>>

\* A click on AlertDialogCancel.
CancelDelete ==
    /\ dialog # 0
    /\ dialog' = 0
    /\ lastEvent' = [kind |-> "cancel", row |-> dialog]
    /\ lastCalls' = <<>>
    /\ UNCHANGED <<props, appVars>>

\* The dialog is dismissed (Escape).
DismissDelete ==
    /\ dialog # 0
    /\ dialog' = 0
    /\ lastEvent' = [kind |-> "dismiss", row |-> dialog]
    /\ lastCalls' = <<>>
    /\ UNCHANGED <<props, appVars>>

\* A click on AlertDialogAction "Delete": onClick={() => onDelete(row.original)}.
ConfirmDelete ==
    /\ dialog # 0
    /\ dialog' = 0
    /\ lastEvent' = [kind |-> "confirm", row |-> dialog]
    /\ lastCalls' = DeleteActionOnClick(props, Body(props)[dialog].record)
    /\ UNCHANGED <<props, appVars>>

\* The props that differ from p in at most one field.
ChangedProps(p) ==
    {[p EXCEPT !.data = v] : v \in TableData}
    \cup {[p EXCEPT !.columns = v] : v \in TableColumnSets}
    \cup {[p EXCEPT !.pageCount = v] : v \in 0..MaxPageCount}
    \cup {[p EXCEPT !.currentPage = v] : v \in 0..(MaxPageCount + 1)}
    \cup {[p EXCEPT !.onEdit = v] : v \in BOOLEAN}
    \cup {[p EXCEPT !.onDelete = v] : v \in BOOLEAN}
    \cup {[p EXCEPT !.editRoute = v] : v \in EditRoutes}
    \cup {[p EXCEPT !.isLoading = v] : v \in BOOLEAN}

\* The parent renders the table again with one prop changed.  The open dialog
\* survives only if its row and its delete control are still rendered, and
\* is lost when the cell is remounted.
Rerender ==
    /\ \E q \in ChangedProps(props) \ {props} :
          /\ props' = q
          /\ dialog' \in {0} \cup (IF dialog \in DataRows(q) /\ HasDeleteControl(q)
                                   THEN {dialog} ELSE {})
    /\ lastEvent' = [kind |-> "rerender", row |-> 0]
    /\ lastCalls' = <<>>
    /\ UNCHANGED appVars

NextTable ==
    \/ TableClickPrevious
    \/ TableClickNext
    \/ \E i \in 1..MaxRows : ClickEdit(i)
    \/ \E i \in 1..MaxRows : OpenDeleteDialog(i)
    \/ CancelDelete
    \/ DismissDelete
    \/ ConfirmDelete
    \/ Rerender

SpecTable == InitTable /\ [][NextTable]_vars

(***************************************************************************)
(* Spec: the App screen as wired.                                          *)
(***************************************************************************)

\* The parsed body of a response for zero-indexed page z carrying n records.
ResponseRows(z, n) == [k \in 1..n |-> [id |-> z * PageSize + k]]

\* History kept with each request in flight: before, the rows stored when it
\* was issued; alone, no other request has settled since it was issued; stale,
\* a request issued after it has already stored its response.
Settle(i, stored) ==
    Remove([j \in 1..Len(inflight) |->
               [inflight[j] EXCEPT !.alone = FALSE,
                                   !.stale = IF stored /\ j < i THEN TRUE ELSE @]], i)

\* Faulty variant of FetchData: the request is sent without
\* setIsLoading(true).
FetchData_NoLoading(page) ==
    /\ isLoading' = isLoading
    /\ inflight' = Append(inflight,
           [page |-> page - 1, stage |-> "fetching", parses |-> FALSE,
            rows |-> <<>>, before |-> data, alone |-> TRUE, stale |-> FALSE])

\* fetchData up to its first await: setIsLoading(true), then
\* fetch(`.../auction-all/${currentPage-1}/10`) with the currentPage of the
\* render whose effect this is.
FetchData(page) ==
    /\ isLoading' = TRUE
    /\ inflight' = Append(inflight,
           [page |-> page - 1, stage |-> "fetching", parses |-> FALSE,
            rows |-> <<>>, before |-> data, alone |-> TRUE, stale |-> FALSE])

\* useEffect(..., [currentPage]): runs after the first commit and after every
\* commit whose currentPage differs from the one it last ran with.
Effect ==
    /\ effectDeps # props.currentPage
    /\ issued < MaxOverlap \/ inflight = <<>>
    /\ FetchData(props.currentPage)
    /\ effectDeps' = props.currentPage
    /\ issued' = IF issued < MaxOverlap THEN issued + 1 ELSE issued
    /\ UNCHANGED <<data, currentPage, errorsLogged, staleShown, props, tableVars>>

\* React commits a render of the App with its current state; the effect of
\* the previous commit has been flushed by then.
Render ==
    /\ effectDeps = props.currentPage
    /\ props # AppProps
    /\ props' = AppProps
    /\ UNCHANGED <<appVars, tableVars>>

\* onPageChange={setCurrentPage}
SetCurrentPage(calls) == currentPage' = calls[1].arg

\* A click on the enabled Previous button of the rendered table.
ClickPrevious ==
    /\ ~PreviousDisabled(props)
    /\ SetCurrentPage(PreviousOnClick(props))
    /\ UNCHANGED <<data, isLoading, inflight, errorsLogged, effectDeps, issued, staleShown,
                   props, tableVars>>

\* A click on the enabled Next button of the rendered table.
ClickNext ==
    /\ ~NextDisabled(props)
    /\ SetCurrentPage(NextOnClick(props))
    /\ UNCHANGED <<data, isLoading, inflight, errorsLogged, effectDeps, issued, staleShown,
                   props, tableVars>>

\* Variant of SetData with request tagging: a superseded response is dropped.
SetData_Tagged(r) == data' = IF r.stale THEN data ELSE r.rows

\* setData(result): the response replaces the stored rows, whichever request
\* it answers.
SetData(r) == data' = r.rows

\* Faulty variant of CatchFinally: setIsLoading(false) is not in a finally,
\* so a failure leaves the flag as it was.
CatchFinally_NoFinally(i) ==
    /\ errorsLogged' = errorsLogged + 1
    /\ isLoading' = isLoading
    /\ inflight' = Settle(i, FALSE)
    /\ UNCHANGED <<data, staleShown>>

\* Faulty variant of CatchFinally: the catch block empties the stored rows.
CatchFinally_ClearsRows(i) ==
    /\ errorsLogged' = errorsLogged + 1
    /\ isLoading' = FALSE
    /\ inflight' = Settle(i, FALSE)
    /\ data' = <<>>
    /\ UNCHANGED staleShown

\* catch (error) { console.error(...) } finally { setIsLoading(false) }
CatchFinally(i) ==
    /\ errorsLogged' = errorsLogged + 1
    /\ isLoading' = FALSE
    /\ inflight' = Settle(i, FALSE)
    /\ UNCHANGED <<data, staleShown>>

\* await fetch(...) resolves with a response whose body will or will not
\* parse as JSON.
FetchResolve(i) ==
    /\ i \in 1..Len(inflight)
    /\ inflight[i].stage = "fetching"
    /\ \E ok \in BOOLEAN, n \in 0..MaxRespRows :
          /\ ~ok => n = 0
          /\ inflight' = [inflight EXCEPT ![i] =
                 [@ EXCEPT !.stage = "parsing", !.parses = ok,
                           !.rows = ResponseRows(inflight[i].page, n)]]
    /\ UNCHANGED <<data, currentPage, isLoading, errorsLogged, effectDeps, issued, staleShown,
                   props, tableVars>>

\* await fetch(...) rejects: network error.
FetchReject(i) ==
    /\ i \in 1..Len(inflight)
    /\ inflight[i].stage = "fetching"
    /\ errorsLogged < MaxErrors
    /\ CatchFinally(i)
    /\ UNCHANGED <<currentPage, effectDeps, issued, props, tableVars>>

\* await response.json() resolves: setData(result); finally setIsLoading(false).
JsonResolve(i) ==
    /\ i \in 1..Len(inflight)
    /\ inflight[i].stage = "parsing"
    /\ inflight[i].parses
    /\ SetData(inflight[i])
    /\ isLoading' = FALSE
    /\ staleShown' = inflight[i].stale
    /\ inflight' = Settle(i, TRUE)
    /\ UNCHANGED <<currentPage, errorsLogged, effectDeps, issued, props, tableVars>>

\* await response.json() rejects: parse error.
JsonReject(i) ==
    /\ i \in 1..Len(inflight)
    /\ inflight[i].stage = "parsing"
    /\ ~inflight[i].parses
    /\ errorsLogged < MaxErrors
    /\ CatchFinally(i)
    /\ UNCHANGED <<currentPage, effectDeps, issued, props, tableVars>>

Init ==
    /\ InitApp
    /\ props = AppProps
    /\ dialog = 0
    /\ lastEvent = NoEvent
    /\ lastCalls = <<>>

Next ==
    \/ Effect
    \/ Render
    \/ ClickPrevious
    \/ ClickNext
    \/ \E i \in 1..MaxOverlap : FetchResolve(i)
    \/ \E i \in 1..MaxOverlap : FetchReject(i)
    \/ \E i \in 1..MaxOverlap : JsonResolve(i)
    \/ \E i \in 1..MaxOverlap : JsonReject(i)

Spec == Init /\ [][Next]_vars

(***************************************************************************)
(* Properties of the renderer, checked under SpecTable.                    *)
(***************************************************************************)

Called(fn) == \E k \in 1..Len(lastCalls) : lastCalls[k].fn = fn

\* C1: the delete callback is invoked iff the dialog's Delete action is
\* clicked for a row, exactly once and with that row's record; opening the
\* dialog, cancelling it or dismissing it invokes no callback at all, and no
\* other event (edit click, pager click, re-render) invokes the delete
\* callback.
C1_DeleteOnlyOnConfirm ==
    /\ Called("onDelete") <=> lastEvent.kind = "confirm"
    /\ lastEvent.kind = "confirm" =>
          /\ Len(lastCalls) = 1
          /\ lastCalls[1].fn = "onDelete"
          /\ lastCalls[1].arg = props.data[lastEvent.row]
          /\ dialog = 0
    /\ lastEvent.kind \in {"openDelete", "cancel", "dismiss"} => lastCalls = <<>>

\* C1 witness: Delete was confirmed for the second of two rows and the
\* callback got that row's record.
C1_Witness ==
    /\ lastEvent = [kind |-> "confirm", row |-> 2]
    /\ Len(props.data) = 2
    /\ lastCalls = << [fn |-> "onDelete", arg |-> props.data[2]] >>

\* C2: the body is in exactly one of three states chosen from the props
\* alone: one "Loading..." row when isLoading, whatever the rows; else the
\* one "No results." placeholder when there are no rows; else exactly one
\* body row per record, in order.
C2_BodyStates ==
    LET b == Body(props)
        n == Len(props.data)
    IN  /\ props.isLoading =>
              Len(b) = 1 /\ b[1].kind = "placeholder" /\ b[1].text = "Loading..."
        /\ ~props.isLoading /\ n = 0 =>
              Len(b) = 1 /\ b[1].kind = "placeholder" /\ b[1].text = "No results."
        /\ ~props.isLoading /\ n > 0 =>
              /\ Len(b) = n
              /\ \A i \in 1..n : b[i].kind = "row" /\ b[i].record = props.data[i]

\* C2 witness: loading with two rows supplied shows the single Loading row.
C2_Witness ==
    /\ props.isLoading
    /\ Len(props.data) = 2
    /\ Len(Body(props)) = 1
    /\ Body(props)[1].text = "Loading..."

\* C3: Previous is disabled iff currentPage = 1 and Next is disabled iff
\* currentPage = pageCount; a click on the enabled Previous invokes the
\* page-change callback once with currentPage - 1, a click on the enabled
\* Next invokes it once with currentPage + 1.
C3_Pager ==
    /\ PreviousDisabled(props) <=> props.currentPage = 1
    /\ NextDisabled(props) <=> props.currentPage = props.pageCount
    /\ lastEvent.kind = "previous" =>
          /\ props.currentPage # 1
          /\ Len(lastCalls) = 1
          /\ lastCalls[1].fn = "onPageChange"
          /\ lastCalls[1].arg = props.currentPage - 1
    /\ lastEvent.kind = "next" =>
          /\ props.currentPage # props.pageCount
          /\ Len(lastCalls) = 1
          /\ lastCalls[1].fn = "onPageChange"
          /\ lastCalls[1].arg = props.currentPage + 1

\* C3 witness: Next clicked on page 1 of 2 asked for page 2, where Next is
\* then disabled.
C3_Witness ==
    /\ lastEvent.kind = "next"
    /\ props.currentPage = 1
    /\ props.pageCount = 2
    /\ lastCalls = << [fn |-> "onPageChange", arg |-> 2] >>
    /\ PreviousDisabled(props)

\* C6: the displayed column set is the supplied one followed by exactly one
\* trailing actions column if any of the edit callback, the delete callback
\* or the edit route is supplied, and the supplied one unchanged otherwise.
C6_ActionsColumn ==
    TableColumns(props) =
        IF props.onEdit \/ props.onDelete \/ Truthy(props.editRoute)
        THEN props.columns \o << ActionsColumn >>
        ELSE props.columns

\* C7: a click on a row's edit control does exactly one thing: with an edit
\* route supplied (a non-empty string, as the code tests it) it navigates to
\* "<editRoute>/<row id>" and does not invoke the edit callback; otherwise it
\* invokes the edit callback with the row's record and does not navigate.
C7_EditExclusive ==
    lastEvent.kind = "edit" =>
        /\ Len(lastCalls) = 1
        /\ IF Truthy(props.editRoute)
           THEN /\ lastCalls[1].fn = "navigate"
                /\ lastCalls[1].arg =
                       props.editRoute \o "/" \o ToString(props.data[lastEvent.row].id)
           ELSE /\ lastCalls[1].fn = "onEdit"
                /\ lastCalls[1].arg = props.data[lastEvent.row]

\* C7 witness: edit clicked on the row with id 42 with both the route
\* "/items/edit" and an edit callback supplied navigated to "/items/edit/42".
C7_Witness ==
    /\ lastEvent.kind = "edit"
    /\ props.onEdit
    /\ props.editRoute = "/items/edit"
    /\ props.data[lastEvent.row].id = 42
    /\ lastCalls = << [fn |-> "navigate", arg |-> "/items/edit/42"] >>

(***************************************************************************)
(* Properties of the App, checked under Spec.                              *)
(***************************************************************************)

\* This step issued a request.
Issued == Len(inflight') = Len(inflight) + 1

\* This step settled a request, with either outcome.
Settled == Len(inflight') = Len(inflight) - 1

\* This step is the failure (network or parse error) of request i.
FailedAt(i) ==
    /\ i \in 1..Len(inflight)
    /\ inflight[i].stage = "fetching" \/ ~inflight[i].parses
    /\ errorsLogged' = errorsLogged + 1
    /\ inflight' = Settle(i, FALSE)

\* This step is the successful completion of request i.
ResolvedAt(i) ==
    /\ i \in 1..Len(inflight)
    /\ inflight[i].stage = "parsing" /\ inflight[i].parses
    /\ errorsLogged' = errorsLogged
    /\ inflight' = Settle(i, TRUE)

\* C4: every step that issues a fetch leaves the loading flag true, and
\* every step in which a fetch settles, by success, network error or parse
\* error, leaves it false.
C4_LoadingBrackets ==
    [][(Issued => isLoading') /\ (Settled => ~isLoading')]_vars

\* C4 witness: two fetches failed, none is in flight, and the flag is false.
C4_Witness ==
    /\ errorsLogged = 2
    /\ inflight = <<>>
    /\ ~isLoading

\* C5 as stated: when a fetch fails, the rows stored afterwards are exactly
\* the rows that were stored when that request was issued, and the loading
\* flag goes from true to false.
C5_Original ==
    [][\A i \in 1..MaxOverlap :
          FailedAt(i) =>
              /\ data' = inflight[i].before
              /\ isLoading /\ ~isLoading']_vars

\* C5 as amended: a failing fetch leaves the stored rows as they were just
\* before it settled and the loading flag false; the rows are those stored
\* when the request was issued, and the flag goes from true to false, if no
\* other request settled while it was in flight.
C5_FailureKeepsRows ==
    [][\A i \in 1..MaxOverlap :
          FailedAt(i) =>
              /\ data' = data
              /\ ~isLoading'
              /\ inflight[i].alone => (data' = inflight[i].before /\ isLoading)]_vars

\* C5 witness: a fetch failed after rows had been stored, and left them.
C5_Witness ==
    /\ errorsLogged = 1
    /\ inflight = <<>>
    /\ ~isLoading
    /\ data = ResponseRows(0, 1)
    /\ currentPage = 2
    /\ ~staleShown

\* C8: a response is stored whenever its request completes successfully,
\* also when a request issued later has stored its response already; so the
\* state of C8_Witness is reachable.
C8_LateResponseStored ==
    [][\A i \in 1..MaxOverlap :
          ResolvedAt(i) => (data' = inflight[i].rows /\ staleShown' = inflight[i].stale)]_vars

\* C8 witness: page 1 was requested, then page 2; nothing is in flight,
\* currentPage is 2, no fetch failed, and the stored rows are the response
\* for page 1 (zero-indexed page 0), stored after the response for page 2.
C8_Witness ==
    /\ inflight = <<>>
    /\ currentPage = 2
    /\ effectDeps = 2
    /\ issued = 2
    /\ errorsLogged = 0
    /\ staleShown
    /\ data = ResponseRows(0, 1)

\* C9 as stated: a request that never settles keeps the loading flag true
\* in every later state.  No step is ever forced on a request in flight (no
\* timeout), so every request in flight in a reachable state may be the hung
\* one, and the statement is: whenever a request is in flight, the flag is
\* true.
C9_Original == inflight # <<>> => isLoading

\* C9 as amended: a request in flight keeps the loading flag true as long as
\* no other request has settled since it was issued.
C9_LoadingUntilOtherSettles ==
    \A i \in 1..Len(inflight) : inflight[i].alone => isLoading

\* C9 witness: a second request was issued while the first was in flight,
\* none has settled, and the rendered table shows the loading row.
C9_Witness ==
    /\ Len(inflight) = 2
    /\ inflight[1].alone /\ inflight[2].alone
    /\ isLoading
    /\ props.isLoading
    /\ Body(props)[1].text = "Loading..."

\* C10: in the App as wired, 1 <= currentPage <= 10 in every state, for the
\* state and for the rendered prop, also after several clicks on one render,
\* and every request in flight is for a zero-indexed page in 0..9.
C10_PageInRange ==
    /\ currentPage \in 1..PageCount
    /\ props.currentPage \in 1..PageCount
    /\ \A i \in 1..Len(inflight) : inflight[i].page \in 0..(PageCount - 1)
    /\ effectDeps # 0 => effectDeps \in 1..PageCount

\* C10 witness: the last page is shown with Next disabled, its request (page
\* 9) is in flight, and Previous has been clicked before the re-render.
C10_Witness ==
    /\ props.currentPage = 10
    /\ NextDisabled(props)
    /\ currentPage = 9
    /\ inflight # <<>>
    /\ inflight[Len(inflight)].page = 9

====
